---- MODULE Spec2Model ----
(***************************************************************************)
(* Contact Manager (contact_manager.py, main.py).                          *)
(*                                                                         *)
(* A Python str is a sequence of one-character strings.  A contact is a    *)
(* Python dict: a function from keys (strings, or the None key that        *)
(* csv.DictReader uses for surplus columns) to values (a str, None, or a   *)
(* list of str).  The persisted file is absent or holds a text.            *)
(***************************************************************************)
EXTENDS Integers, Sequences, FiniteSets, TLC

VARIABLES
    file,       \* contacts.csv on disk: [exists |-> FALSE] or [exists |-> TRUE, text |-> chars]
    startFile,  \* the file as it was when the session started
    contacts,   \* main's list of contact dicts
    pc,         \* where the session stands (which input() call is pending)
    full_name,  \* add_contact's local full_name while it prompts on
    phone,      \* add_contact's local phone while it prompts on
    target,     \* update_contact: index of the contact bound by the for loop
    op,         \* the operation the last step belonged to
    arg,        \* the raw line typed at the last input() call
    reported,   \* the contacts search_contact printed as "Found: ..."
    notFound,   \* whether the last operation printed its not-found message
    exc,        \* the exception that ended the process, "" when none
    reads,      \* how often load_contacts opened the file
    writes,     \* how often save_contacts opened the file for writing
    inp,        \* input of the function under check (function specifications)
    out         \* its result

vars == <<file, startFile, contacts, pc, full_name, phone, target, op, arg,
          reported, notFound, exc, reads, writes, inp, out>>

-----------------------------------------------------------------------------
(* Bounds of the model *)

\* most contacts the store holds (add_contact is not offered beyond it)
MaxContacts == 2
\* the counter of file writes saturates here
WriteCap == 2
\* longest name checked by the normalisation specification
MaxNameLen == 3
\* most contacts in a sequence handed to save_contacts by the codec specification
MaxCodecLen == 2
\* character edits applied to a well-formed phone number by the phone specification
MaxEdits == 1

-----------------------------------------------------------------------------
(* Strings *)

UpperLetters ==
    <<"A","B","C","D","E","F","G","H","I","J","K","L","M",
      "N","O","P","Q","R","S","T","U","V","W","X","Y","Z">>

LowerLetters ==
    <<"a","b","c","d","e","f","g","h","i","j","k","l","m",
      "n","o","p","q","r","s","t","u","v","w","x","y","z">>

Digits == {"0","1","2","3","4","5","6","7","8","9"}

\* the characters str.strip() removes (those that occur in the model)
Whitespace == {" ", "\t", "\n", "\r"}

IsUpper(c) == \E i \in 1..26 : UpperLetters[i] = c
IsLower(c) == \E i \in 1..26 : LowerLetters[i] = c
\* str.title's "cased" test
IsCased(c) == IsUpper(c) \/ IsLower(c)

ToLower(c) ==
    IF IsUpper(c) THEN LowerLetters[CHOOSE i \in 1..26 : UpperLetters[i] = c] ELSE c

ToUpper(c) ==
    IF IsLower(c) THEN UpperLetters[CHOOSE i \in 1..26 : LowerLetters[i] = c] ELSE c

\* str.lower()
Lower(s) == [i \in 1..Len(s) |-> ToLower(s[i])]

\* str.upper()
Upper(s) == [i \in 1..Len(s) |-> ToUpper(s[i])]

SetMin(S) == CHOOSE m \in S : \A k \in S : m <= k
SetMax(S) == CHOOSE m \in S : \A k \in S : k <= m

\* str.strip(): drops the leading and the trailing whitespace
Strip(s) ==
    LET keep == {i \in 1..Len(s) : s[i] \notin Whitespace}
    IN  IF keep = {} THEN <<>> ELSE SubSeq(s, SetMin(keep), SetMax(keep))

\* str.title(): a character that follows a cased character is lower-cased, any
\* other character is title-cased; "follows a cased character" is recomputed
\* from every character, so every non-letter starts a new word.
RECURSIVE TitleFrom(_, _, _)
TitleFrom(s, i, previous_is_cased) ==
    IF i > Len(s) THEN <<>>
    ELSE <<IF previous_is_cased THEN ToLower(s[i]) ELSE ToUpper(s[i])>>
         \o TitleFrom(s, i + 1, IsCased(s[i]))

\* a title() that starts a word only after whitespace (what a per-token
\* capitalize would do)
TitleWhitespaceOnly(s) ==
    [i \in 1..Len(s) |->
        IF i = 1 \/ s[i - 1] \in Whitespace THEN ToUpper(s[i]) ELSE ToLower(s[i])]

Title(s) == TitleFrom(s, 1, FALSE)

\* input(...).strip().title(): add_contact, remove_contact, update_contact
NormalizeName(s) == Title(Strip(s))

\* x in s, for strings: s holds x as a contiguous run
Contains(s, x) ==
    \E k \in 0..(Len(s) - Len(x)) : \A j \in 1..Len(x) : s[k + j] = x[j]

-----------------------------------------------------------------------------
(* Validation *)

\* r'^\(\d{3}\)\d{3}-\d{4}$' as the tokens re.match consumes, one per character
PhonePattern ==
    <<"(", "\\d", "\\d", "\\d", ")", "\\d", "\\d", "\\d", "-", "\\d", "\\d", "\\d", "\\d">>

TokenMatches(tok, c) == IF tok = "\\d" THEN c \in Digits ELSE c = tok

\* '$' without re.MULTILINE: the end of the string, or just before a newline
\* that is the string's last character
DollarAt(s, i) == i = Len(s) + 1 \/ (i = Len(s) /\ s[i] = "\n")

\* is_valid_phone: re.match(pattern, phone) is not None
is_valid_phone(s) ==
    /\ Len(s) >= Len(PhonePattern)
    /\ \A j \in 1..Len(PhonePattern) : TokenMatches(PhonePattern[j], s[j])
    /\ DollarAt(s, Len(PhonePattern) + 1)

\* the negation of add_contact's loop condition: "@" in email and "." in email
is_valid_email(s) ==
    /\ \E i \in 1..Len(s) : s[i] = "@"
    /\ \E i \in 1..Len(s) : s[i] = "."

-----------------------------------------------------------------------------
(* Contacts as dicts *)

FullNameKey == <<"F","u","l","l"," ","N","a","m","e">>
PhoneKey == <<"p","h","o","n","e">>
EmailKey == <<"e","m","a","i","l">>

\* csv.DictReader's restkey: the key None, under which surplus columns are kept
NoneKey == <<"None">>

\* save_contacts' fieldnames
FieldNames == <<FullNameKey, PhoneKey, EmailKey>>

StrVal(s) == [str |-> s]
\* csv.DictReader's restval: None, the value of a column the row lacks
NoneVal == [none |-> TRUE]
ListVal(l) == [list |-> l]

IsStr(v) == DOMAIN v = {"str"}

Keys(contact) == DOMAIN contact

\* the dict add_contact builds
Contact(n, p, e) ==
    (FullNameKey :> StrVal(n)) @@ (PhoneKey :> StrVal(p)) @@ (EmailKey :> StrVal(e))

-----------------------------------------------------------------------------
(* csv.writer, excel dialect: delimiter ',', quotechar '"', doublequote,      *)
(* QUOTE_MINIMAL, lineterminator '\r\n'                                     *)

LineTerminator == <<"\r", "\n">>

\* QUOTE_MINIMAL: a field is quoted when it holds the delimiter, the quote
\* character or a character of the line terminator
NeedsQuote(f) == \E i \in 1..Len(f) : f[i] \in {",", "\"", "\r", "\n"}

RECURSIVE DoubleQuotes(_)
DoubleQuotes(f) ==
    IF f = <<>> THEN <<>>
    ELSE (IF Head(f) = "\"" THEN <<"\"", "\"">> ELSE <<Head(f)>>) \o DoubleQuotes(Tail(f))

WriteField(f) ==
    IF NeedsQuote(f) THEN <<"\"">> \o DoubleQuotes(f) \o <<"\"">> ELSE f

RECURSIVE JoinFields(_)
JoinFields(fs) ==
    IF fs = <<>> THEN <<>>
    ELSE IF Len(fs) = 1 THEN WriteField(fs[1])
    ELSE WriteField(fs[1]) \o <<",">> \o JoinFields(Tail(fs))

\* csv.writer.writerow on a list of str
WriteRow(fs) == JoinFields(fs) \o LineTerminator

\* DictWriter._dict_to_list, extrasaction='raise': a key outside fieldnames
\* raises ValueError
HasWrongFields(contact) == \E k \in Keys(contact) : \A i \in 1..Len(FieldNames) : FieldNames[i] # k

\* rowdict.get(key, '') for each fieldname; the writer writes None as ''
DictToList(contact) ==
    [i \in 1..Len(FieldNames) |->
        IF FieldNames[i] \in Keys(contact) /\ IsStr(contact[FieldNames[i]])
        THEN contact[FieldNames[i]].str
        ELSE <<>>]

\* the rows save_contacts gets to write: those before the first dict that
\* raises ValueError
RECURSIVE WriteRows(_)
WriteRows(cs) ==
    IF cs = <<>> \/ HasWrongFields(Head(cs)) THEN <<>>
    ELSE WriteRow(DictToList(Head(cs))) \o WriteRows(Tail(cs))

\* save_contacts: open(filename, 'w', newline='') truncates; the header and the
\* rows are written untranslated; `with` closes the file also when writerow
\* raises.  raised: whether ValueError left save_contacts.
save_contacts(cs) ==
    [text   |-> WriteRow(FieldNames) \o WriteRows(cs),
     raised |-> \E i \in 1..Len(cs) : HasWrongFields(cs[i])]

-----------------------------------------------------------------------------
(* Reading: open(filename, 'r') and csv.DictReader *)

\* The lines the file object yields when iterated.  open(..., mode='r')
\* without newline='' reads with universal newlines: a line ends at "\n", at
\* "\r\n" or at a lone "\r", and each of these reaches the reader as "\n".  The
\* last line ends at the end of the text.
FileLines(t) ==
    LET \* where a line terminator begins
        ends == {i \in 1..Len(t) :
                    \/ t[i] = "\r"
                    \/ t[i] = "\n" /\ ~(i > 1 /\ t[i - 1] = "\r")}
        after(e) == IF t[e] = "\r" /\ e < Len(t) /\ t[e + 1] = "\n" THEN e + 2 ELSE e + 1
        starts == {b \in {1} \cup {after(e) : e \in ends} : b <= Len(t)}
        start(k) == CHOOSE b \in starts : Cardinality({x \in starts : x < b}) = k - 1
        line(b) == IF \E e \in ends : e >= b
                   THEN SubSeq(t, b, SetMin({e \in ends : e >= b}) - 1) \o <<"\n">>
                   ELSE SubSeq(t, b, Len(t))
    IN  [k \in 1..Cardinality(starts) |-> line(start(k))]

\* the reader between records (parse_reset)
ReaderStart == [st |-> "START_RECORD", field |-> <<>>, row |-> <<>>]

\* parse_save_field
SaveField(s, next) == [st |-> next, field |-> <<>>, row |-> Append(s.row, s.field)]

\* csv.reader's state machine (_csv.c parse_process_char) on one character,
\* excel dialect, not strict.  s.st: the parser state; s.field: the field
\* being collected; s.row: the fields of the record so far.
ProcessChar(s, c) ==
    CASE s.st \in {"START_RECORD", "START_FIELD"} ->
            IF c \in {"\n", "\r"}
            THEN IF s.st = "START_RECORD" THEN [s EXCEPT !.st = "EAT_CRNL"]
                 ELSE SaveField(s, "EAT_CRNL")
            ELSE IF c = "\"" THEN [s EXCEPT !.st = "IN_QUOTED_FIELD"]
            ELSE IF c = "," THEN SaveField(s, "START_FIELD")
            ELSE [s EXCEPT !.st = "IN_FIELD", !.field = Append(s.field, c)]
      [] s.st = "IN_FIELD" ->
            IF c \in {"\n", "\r"} THEN SaveField(s, "EAT_CRNL")
            ELSE IF c = "," THEN SaveField(s, "START_FIELD")
            ELSE [s EXCEPT !.field = Append(s.field, c)]
      [] s.st = "IN_QUOTED_FIELD" ->
            IF c = "\"" THEN [s EXCEPT !.st = "QUOTE_IN_QUOTED_FIELD"]
            ELSE [s EXCEPT !.field = Append(s.field, c)]
      [] s.st = "QUOTE_IN_QUOTED_FIELD" ->
            IF c = "\"" THEN [s EXCEPT !.st = "IN_QUOTED_FIELD", !.field = Append(s.field, c)]
            ELSE IF c = "," THEN SaveField(s, "START_FIELD")
            ELSE IF c \in {"\n", "\r"} THEN SaveField(s, "EAT_CRNL")
            ELSE [s EXCEPT !.st = "IN_FIELD", !.field = Append(s.field, c)]
      [] s.st = "EAT_CRNL" ->
            \* a line holds nothing after its newline
            s

\* parse_process_char(0), fed at the end of every line
EndOfLine(s) ==
    CASE s.st \in {"START_RECORD", "EAT_CRNL"} -> [s EXCEPT !.st = "START_RECORD"]
      [] s.st \in {"START_FIELD", "IN_FIELD", "QUOTE_IN_QUOTED_FIELD"} ->
            SaveField(s, "START_RECORD")
      [] s.st = "IN_QUOTED_FIELD" -> s

\* one line fed to the state machine, character by character, then its end;
\* once the newline is eaten the line holds nothing more
RECURSIVE ProcessLine(_, _, _)
ProcessLine(line, i, s) ==
    IF i > Len(line) \/ s.st = "EAT_CRNL" THEN EndOfLine(s)
    ELSE ProcessLine(line, i + 1, ProcessChar(s, line[i]))

\* Reader_iternext, called until the lines run out: a record is delivered when
\* a line ends outside a quoted field; at the end of the input a record whose
\* quoted field is still open is delivered too
RECURSIVE ReadRecords(_, _, _, _)
ReadRecords(lines, k, s, rows) ==
    IF k > Len(lines)
    THEN IF s.st = "IN_QUOTED_FIELD" THEN Append(rows, Append(s.row, s.field)) ELSE rows
    ELSE LET e == ProcessLine(lines[k], 1, s)
         IN  IF e.st = "START_RECORD"
             THEN ReadRecords(lines, k + 1, ReaderStart, Append(rows, e.row))
             ELSE ReadRecords(lines, k + 1, e, rows)

\* csv.reader over the whole text: the list of rows, each a list of str
CsvRows(t) == ReadRecords(FileLines(t), 1, ReaderStart, <<>>)

\* DictReader.__next__: dict(zip(fieldnames, row)); surplus values go under
\* the key None as a list; missing columns get None
MakeDict(fieldnames, row) ==
    LET lf == Len(fieldnames)
        lr == Len(row)
        named == {fieldnames[i] : i \in 1..lf}
        last(k) == SetMax({i \in 1..lf : fieldnames[i] = k})
    IN  [k \in named \cup (IF lf < lr THEN {NoneKey} ELSE {}) |->
            IF k = NoneKey
            THEN ListVal(SubSeq(row, lf + 1, lr))
            ELSE IF last(k) <= lr THEN StrVal(row[last(k)]) ELSE NoneVal]

RECURSIVE DictRows(_, _)
DictRows(fieldnames, rows) ==
    IF rows = <<>> THEN <<>>
    ELSE IF Head(rows) = <<>> THEN DictRows(fieldnames, Tail(rows))
    ELSE <<MakeDict(fieldnames, Head(rows))>> \o DictRows(fieldnames, Tail(rows))

\* csv.DictReader: the first row read is the header, whatever it holds; empty
\* rows after it are skipped
DictReader(t) ==
    LET rows == CsvRows(t)
    IN  IF rows = <<>> THEN <<>> ELSE DictRows(Head(rows), Tail(rows))

\* a load_contacts that lets FileNotFoundError escape
LoadRaisesWhenAbsent(f) ==
    IF f.exists THEN [contacts |-> DictReader(f.text), raised |-> FALSE]
    ELSE [contacts |-> <<>>, raised |-> TRUE]

\* load_contacts: FileNotFoundError is caught and the empty list returned; a
\* file that exists is read whole, every row appended as DictReader gives it
load_contacts(f) ==
    IF f.exists THEN [contacts |-> DictReader(f.text), raised |-> FALSE]
    ELSE [contacts |-> <<>>, raised |-> FALSE]

-----------------------------------------------------------------------------
(* The operations of contact_manager.py on the list of contacts *)

\* contact['Full Name'] raises KeyError
LacksKey(contact, k) == k \notin Keys(contact)

\* view_contacts: nothing is printed but a notice when the list is empty;
\* otherwise every row is formatted with f"{...:<20}", which raises KeyError
\* on a missing key and TypeError on None.  The exception raised, "" if none.
RECURSIVE ViewLoop(_, _)
ViewLoop(cs, i) ==
    IF i > Len(cs) THEN ""
    ELSE IF \E j \in 1..3 : LacksKey(cs[i], FieldNames[j]) /\
                            \A h \in 1..(j - 1) : ~LacksKey(cs[i], FieldNames[h]) /\ IsStr(cs[i][FieldNames[h]])
         THEN "KeyError"
    ELSE IF \E j \in 1..3 : ~IsStr(cs[i][FieldNames[j]])
         THEN "TypeError"
    ELSE ViewLoop(cs, i + 1)

view_contacts(cs) == ViewLoop(cs, 1)

\* search_contact's loop from contact i on, with the matches printed so far
RECURSIVE SearchLoop(_, _, _, _)
SearchLoop(cs, i, search_term, found) ==
    IF i > Len(cs)
    THEN [reported |-> found, notFound |-> found = <<>>, exc |-> ""]
    ELSE IF LacksKey(cs[i], FullNameKey)
         THEN [reported |-> found, notFound |-> FALSE, exc |-> "KeyError"]
    ELSE IF ~IsStr(cs[i][FullNameKey])
         THEN [reported |-> found, notFound |-> FALSE, exc |-> "AttributeError"]
    ELSE IF Contains(Lower(cs[i][FullNameKey].str), search_term)
         THEN IF LacksKey(cs[i], PhoneKey) \/ LacksKey(cs[i], EmailKey)
              THEN [reported |-> found, notFound |-> FALSE, exc |-> "KeyError"]
              ELSE SearchLoop(cs, i + 1, search_term, Append(found, cs[i]))
    ELSE SearchLoop(cs, i + 1, search_term, found)

\* a search_contact that forgets to lower-case the term
search_contact_term_as_typed(cs, line) == SearchLoop(cs, 1, Strip(line), <<>>)

\* search_contact, given the line typed at its prompt
search_contact(cs, line) == SearchLoop(cs, 1, Lower(Strip(line)), <<>>)

\* a removal that drops every element equal to c
ListRemoveAll(cs, c) == SelectSeq(cs, LAMBDA d : d # c)

\* list.remove(c): drops the first element equal to c
ListRemove(cs, c) ==
    LET k == SetMin({i \in 1..Len(cs) : cs[i] = c})
    IN  SubSeq(cs, 1, k - 1) \o SubSeq(cs, k + 1, Len(cs))

\* remove_contact's loop from contact i on
RECURSIVE RemoveLoop(_, _, _)
RemoveLoop(cs, i, name_to_remove) ==
    IF i > Len(cs)
    THEN [contacts |-> cs, notFound |-> TRUE, exc |-> ""]
    ELSE IF LacksKey(cs[i], FullNameKey)
         THEN [contacts |-> cs, notFound |-> FALSE, exc |-> "KeyError"]
    ELSE IF cs[i][FullNameKey] = StrVal(name_to_remove)
         THEN [contacts |-> ListRemove(cs, cs[i]), notFound |-> FALSE, exc |-> ""]
    ELSE RemoveLoop(cs, i + 1, name_to_remove)

\* remove_contact, given the line typed at its prompt
remove_contact(cs, line) == RemoveLoop(cs, 1, NormalizeName(line))

\* update_contact's loop from contact i on: the index of the contact whose
\* phone is then asked for, 0 when none matches
RECURSIVE UpdateLoop(_, _, _)
UpdateLoop(cs, i, name_to_update) ==
    IF i > Len(cs)
    THEN [target |-> 0, notFound |-> TRUE, exc |-> ""]
    ELSE IF LacksKey(cs[i], FullNameKey)
         THEN [target |-> 0, notFound |-> FALSE, exc |-> "KeyError"]
    ELSE IF cs[i][FullNameKey] = StrVal(name_to_update)
         THEN [target |-> i, notFound |-> FALSE, exc |-> ""]
    ELSE UpdateLoop(cs, i + 1, name_to_update)

\* update_contact up to its first phone prompt, given the line typed for the name
update_contact_find(cs, line) == UpdateLoop(cs, 1, NormalizeName(line))

\* an update that writes the phone into every contact of that name
SetPhoneAllOfName(cs, i, new_phone) ==
    [j \in 1..Len(cs) |->
        IF ~LacksKey(cs[j], FullNameKey) /\ cs[j][FullNameKey] = cs[i][FullNameKey]
        THEN (PhoneKey :> StrVal(new_phone)) @@ cs[j]
        ELSE cs[j]]

\* contact['phone'] = new_phone, on the dict the loop stopped at
SetPhone(cs, i, new_phone) ==
    [cs EXCEPT ![i] = (PhoneKey :> StrVal(new_phone)) @@ cs[i]]

RECURSIVE DigitsValue(_)
DigitsValue(t) ==
    IF t = <<>> THEN 0
    ELSE 10 * DigitsValue(SubSeq(t, 1, Len(t) - 1))
         + (CHOOSE n \in 0..9 : <<"0","1","2","3","4","5","6","7","8","9">>[n + 1] = t[Len(t)])

\* int(line) of main's menu prompt, for lines of digits and surrounding
\* whitespace: the number; -1 stands for ValueError (any other line)
ParseChoice(line) ==
    LET t == Strip(line)
    IN  IF t # <<>> /\ \A i \in 1..Len(t) : t[i] \in Digits THEN DigitsValue(t) ELSE -1

-----------------------------------------------------------------------------
(* What the user types, and what contacts.csv may hold at startup *)

P1 == <<"(","5","5","5",")","1","2","3","-","4","5","6","7">>
P2 == <<"(","5","5","5",")","0","0","0","-","0","0","0","0">>

MenuInputs == {<<"1">>, <<"2">>, <<"3">>, <<"4">>, <<"5">>, <<"6">>, <<"7">>, <<"x">>}
NameInputs == {<<"a","b">>, <<" ","A","B"," ">>, <<"b">>}
PhoneInputs == {P1, <<" ">> \o P2 \o <<" ">>, <<"1","2">>}
EmailInputs == {<<"A","@","b",".","c">>, <<"a","b">>}
SearchInputs == {<<"b">>, <<"A","B">>, <<"z">>, <<" ">>}

Line(fs) == JoinFields(fs) \o <<"\n">>
Mail == <<"a","@","b",".","c">>

StartFiles ==
    {   \* no file
        [exists |-> FALSE],
        \* an empty file
        [exists |-> TRUE, text |-> <<>>],
        \* files save_contacts wrote
        [exists |-> TRUE, text |-> save_contacts(<<Contact(<<"A","b">>, P1, Mail)>>).text],
        [exists |-> TRUE, text |-> save_contacts(<<Contact(<<"A","b">>, P1, Mail),
                                                   Contact(<<"A","b">>, P2, Mail)>>).text],
        \* a header other than the recognised column names
        [exists |-> TRUE, text |-> Line(<<<<"n">>, PhoneKey, EmailKey>>)
                                   \o Line(<<<<"A","b">>, P1, Mail>>)],
        \* a row with fewer columns
        [exists |-> TRUE, text |-> Line(FieldNames) \o Line(<<<<"A","b">>>>)],
        \* a row with more columns
        [exists |-> TRUE, text |-> Line(FieldNames) \o Line(<<<<"A","b">>, P1, Mail, <<"x">>>>)],
        \* a row whose phone and email are not valid
        [exists |-> TRUE, text |-> Line(FieldNames) \o Line(<<<<"A","b">>, <<"1","2">>, <<"a","b">>>>)]
    }

-----------------------------------------------------------------------------
(* The session: main() *)

Init ==
    /\ file \in StartFiles
    /\ startFile = file
    /\ contacts = <<>>
    /\ pc = "start"
    /\ full_name = <<>>
    /\ phone = <<>>
    /\ target = 0
    /\ op = "init"
    /\ arg = <<>>
    /\ reported = <<>>
    /\ notFound = FALSE
    /\ exc = ""
    /\ reads = 0
    /\ writes = 0
    /\ inp = <<>>
    /\ out = <<>>

\* a step that leaves the process killed by exception e
Abort(e) == pc' = "aborted" /\ exc' = e

\* contacts = contact_manager.load_contacts("contacts.csv")
Load ==
    /\ pc = "start"
    /\ LET r == load_contacts(file)
       IN  /\ contacts' = r.contacts
           /\ IF r.raised THEN Abort("FileNotFoundError") ELSE pc' = "menu" /\ exc' = exc
    /\ reads' = reads + 1
    /\ op' = "load"
    /\ UNCHANGED <<file, startFile, full_name, phone, target, arg, reported, notFound,
                   writes, inp, out>>

\* int(input(...)) raises ValueError: "Invalid input. Please enter a number."
InvalidInput ==
    /\ pc = "menu"
    /\ \E line \in MenuInputs :
        /\ ParseChoice(line) = -1
        /\ arg' = line
    /\ op' = "invalid_input"
    /\ reported' = <<>> /\ notFound' = FALSE
    /\ UNCHANGED <<file, startFile, contacts, pc, full_name, phone, target, exc,
                   reads, writes, inp, out>>

\* the else branch: "Invalid choice. Please choose a number between 1 and 6."
InvalidChoice ==
    /\ pc = "menu"
    /\ \E line \in MenuInputs :
        /\ ParseChoice(line) \notin (1..6) \cup {-1}
        /\ arg' = line
    /\ op' = "invalid_choice"
    /\ reported' = <<>> /\ notFound' = FALSE
    /\ UNCHANGED <<file, startFile, contacts, pc, full_name, phone, target, exc,
                   reads, writes, inp, out>>

\* a menu choice that enters an operation whose first statement is an input()
Enter(n, name, prompt) ==
    /\ pc = "menu"
    /\ \E line \in MenuInputs :
        /\ ParseChoice(line) = n
        /\ arg' = line
    /\ op' = name
    /\ pc' = prompt
    /\ reported' = <<>> /\ notFound' = FALSE
    /\ UNCHANGED <<file, startFile, contacts, full_name, phone, target, exc,
                   reads, writes, inp, out>>

\* choice 1, add_contact up to its first prompt
ChooseAdd == Len(contacts) < MaxContacts /\ Enter(1, "add", "add_name")

\* full_name = input("Enter full name: ").strip().title()
AddName ==
    /\ pc = "add_name"
    /\ \E line \in NameInputs :
        /\ arg' = line
        /\ full_name' = NormalizeName(line)
    /\ pc' = "add_phone"
    /\ op' = "add"
    /\ UNCHANGED <<file, startFile, contacts, phone, target, reported, notFound, exc,
                   reads, writes, inp, out>>

\* phone = input(...).strip(), asked again while not is_valid_phone(phone)
AddPhone ==
    /\ pc = "add_phone"
    /\ \E line \in PhoneInputs :
        /\ arg' = line
        /\ IF is_valid_phone(Strip(line))
           THEN phone' = Strip(line) /\ pc' = "add_email"
           ELSE phone' = phone /\ pc' = "add_phone"
    /\ op' = "add"
    /\ UNCHANGED <<file, startFile, contacts, full_name, target, reported, notFound, exc,
                   reads, writes, inp, out>>

\* email = input(...).strip(), asked again while "@" or "." is missing; then
\* the contact is appended with email.lower()
AddEmail ==
    /\ pc = "add_email"
    /\ \E line \in EmailInputs :
        /\ arg' = line
        /\ IF is_valid_email(Strip(line))
           THEN /\ contacts' = Append(contacts, Contact(full_name, phone, Lower(Strip(line))))
                /\ pc' = "menu"
                /\ full_name' = <<>> /\ phone' = <<>>
           ELSE UNCHANGED <<contacts, pc, full_name, phone>>
    /\ op' = "add"
    /\ UNCHANGED <<file, startFile, target, reported, notFound, exc,
                   reads, writes, inp, out>>

\* choice 2, view_contacts
ChooseView ==
    /\ pc = "menu"
    /\ \E line \in MenuInputs :
        /\ ParseChoice(line) = 2
        /\ arg' = line
    /\ op' = "view"
    /\ LET e == view_contacts(contacts)
       IN  IF e # "" THEN Abort(e) ELSE UNCHANGED <<pc, exc>>
    /\ reported' = <<>> /\ notFound' = FALSE
    /\ UNCHANGED <<file, startFile, contacts, full_name, phone, target,
                   reads, writes, inp, out>>

\* choice 3, search_contact up to its prompt
ChooseSearch == Enter(3, "search", "search_term")

\* search_contact from its prompt on
SearchTerm ==
    /\ pc = "search_term"
    /\ \E line \in SearchInputs :
        /\ arg' = line
        /\ LET r == search_contact(contacts, line)
           IN  /\ reported' = r.reported
               /\ notFound' = r.notFound
               /\ IF r.exc # "" THEN Abort(r.exc) ELSE pc' = "menu" /\ exc' = exc
    /\ op' = "search"
    /\ UNCHANGED <<file, startFile, contacts, full_name, phone, target,
                   reads, writes, inp, out>>

\* choice 4, remove_contact up to its prompt
ChooseRemove == Enter(4, "remove", "remove_name")

\* remove_contact from its prompt on
RemoveName ==
    /\ pc = "remove_name"
    /\ \E line \in NameInputs :
        /\ arg' = line
        /\ LET r == remove_contact(contacts, line)
           IN  /\ contacts' = r.contacts
               /\ notFound' = r.notFound
               /\ IF r.exc # "" THEN Abort(r.exc) ELSE pc' = "menu" /\ exc' = exc
    /\ op' = "remove"
    /\ UNCHANGED <<file, startFile, full_name, phone, target, reported,
                   reads, writes, inp, out>>

\* choice 5, update_contact up to its first prompt
ChooseUpdate == Enter(5, "update", "update_name")

\* update_contact from the name prompt to the phone prompt, or to its end when
\* no contact has the name
UpdateName ==
    /\ pc = "update_name"
    /\ \E line \in NameInputs :
        /\ arg' = line
        /\ LET r == update_contact_find(contacts, line)
           IN  /\ target' = r.target
               /\ notFound' = r.notFound
               /\ IF r.exc # "" THEN Abort(r.exc)
                  ELSE /\ pc' = IF r.target = 0 THEN "menu" ELSE "update_phone"
                       /\ exc' = exc
    /\ op' = "update"
    /\ UNCHANGED <<file, startFile, contacts, full_name, phone, reported,
                   reads, writes, inp, out>>

\* new_phone = input(...).strip(), asked again while not is_valid_phone; then
\* contact['phone'] = new_phone
UpdatePhone ==
    /\ pc = "update_phone"
    /\ \E line \in PhoneInputs :
        /\ arg' = line
        /\ IF is_valid_phone(Strip(line))
           THEN /\ contacts' = SetPhone(contacts, target, Strip(line))
                /\ pc' = "menu"
                /\ target' = 0
           ELSE UNCHANGED <<contacts, pc, target>>
    /\ op' = "update"
    /\ UNCHANGED <<file, startFile, full_name, phone, reported, notFound, exc,
                   reads, writes, inp, out>>

\* choice 6: save_contacts, then break.  A ValueError out of save_contacts is
\* caught by main's except ValueError, after the file was truncated and partly
\* written, and the loop goes on.
ChooseExit ==
    /\ pc = "menu"
    /\ \E line \in MenuInputs :
        /\ ParseChoice(line) = 6
        /\ arg' = line
    /\ op' = "exit"
    /\ LET r == save_contacts(contacts)
       IN  /\ file' = [exists |-> TRUE, text |-> r.text]
           /\ pc' = IF r.raised THEN "menu" ELSE "exited"
    /\ writes' = IF writes < WriteCap THEN writes + 1 ELSE writes
    /\ reported' = <<>> /\ notFound' = FALSE
    /\ UNCHANGED <<startFile, contacts, full_name, phone, target, exc, reads, inp, out>>

Next ==
    \/ Load
    \/ InvalidInput
    \/ InvalidChoice
    \/ ChooseAdd
    \/ AddName
    \/ AddPhone
    \/ AddEmail
    \/ ChooseView
    \/ ChooseSearch
    \/ SearchTerm
    \/ ChooseRemove
    \/ RemoveName
    \/ ChooseUpdate
    \/ UpdateName
    \/ UpdatePhone
    \/ ChooseExit

Spec == Init /\ [][Next]_vars

-----------------------------------------------------------------------------
(* is_valid_phone on its own: well-formed numbers and their near misses *)

EditChars == {"0", "(", ")", "-", " ", "x", "\n"}

Deletions(s) == {SubSeq(s, 1, i - 1) \o SubSeq(s, i + 1, Len(s)) : i \in 1..Len(s)}
Insertions(s) ==
    {SubSeq(s, 1, i) \o <<c>> \o SubSeq(s, i + 1, Len(s)) : i \in 0..Len(s), c \in EditChars}
Replacements(s) == {[s EXCEPT ![i] = c] : i \in 1..Len(s), c \in EditChars}

RECURSIVE Edited(_, _)
Edited(S, n) ==
    IF n = 0 THEN S
    ELSE Edited(S \cup UNION {Deletions(s) \cup Insertions(s) \cup Replacements(s) : s \in S},
                n - 1)

InitPhone ==
    /\ inp \in Edited({P1, P2}, MaxEdits) \cup {<<>>}
    /\ out = "none"
    /\ pc = "phone_input"
    /\ file = [exists |-> FALSE] /\ startFile = file /\ contacts = <<>>
    /\ full_name = <<>> /\ phone = <<>> /\ target = 0 /\ op = "init" /\ arg = <<>>
    /\ reported = <<>> /\ notFound = FALSE /\ exc = "" /\ reads = 0 /\ writes = 0

CheckPhone ==
    /\ pc = "phone_input"
    /\ out' = is_valid_phone(inp)
    /\ pc' = "phone_done"
    /\ UNCHANGED <<file, startFile, contacts, full_name, phone, target, op, arg,
                   reported, notFound, exc, reads, writes, inp>>

NextPhone == CheckPhone

SpecPhone == InitPhone /\ [][NextPhone]_vars

-----------------------------------------------------------------------------
(* Name normalisation on its own: every short name over a mixed alphabet *)

NameAlphabet == {"a", "B", " ", "'", "-", "1"}

RECURSIVE StringsUpTo(_, _)
StringsUpTo(A, n) ==
    IF n = 0 THEN {<<>>}
    ELSE LET shorter == StringsUpTo(A, n - 1)
         IN  shorter \cup {Append(t, c) : t \in shorter, c \in A}

NameCandidates == StringsUpTo(NameAlphabet, MaxNameLen)

InitName ==
    /\ inp \in NameCandidates
    /\ out = <<>>
    /\ pc = "name_input"
    /\ file = [exists |-> FALSE] /\ startFile = file /\ contacts = <<>>
    /\ full_name = <<>> /\ phone = <<>> /\ target = 0 /\ op = "init" /\ arg = <<>>
    /\ reported = <<>> /\ notFound = FALSE /\ exc = "" /\ reads = 0 /\ writes = 0

Normalize ==
    /\ pc = "name_input"
    /\ out' = NormalizeName(inp)
    /\ pc' = "name_done"
    /\ UNCHANGED <<file, startFile, contacts, full_name, phone, target, op, arg,
                   reported, notFound, exc, reads, writes, inp>>

NextName == Normalize

SpecName == InitName /\ [][NextName]_vars

-----------------------------------------------------------------------------
(* The codec on its own: save_contacts, then load_contacts of what it wrote *)

CodecNames ==
    StringsUpTo({"A", ",", "\""}, 2)
        \cup {<<"A", "\n", "b">>, <<"A", "\r", "b">>, <<"A", " ", "b">>}

CodecEmails == {Mail, <<"\"", "@", ".", ",">>}

CodecContacts == {Contact(n, P1, e) : n \in CodecNames, e \in CodecEmails}

RECURSIVE SeqsUpTo(_, _)
SeqsUpTo(S, n) ==
    IF n = 0 THEN {<<>>}
    ELSE LET shorter == SeqsUpTo(S, n - 1)
         IN  shorter \cup {Append(t, c) : t \in shorter, c \in S}

InitCodec ==
    /\ contacts \in SeqsUpTo(CodecContacts, MaxCodecLen)
    /\ file = [exists |-> FALSE]
    /\ startFile = file
    /\ pc = "codec_save"
    /\ out = <<>> /\ inp = <<>>
    /\ full_name = <<>> /\ phone = <<>> /\ target = 0 /\ op = "init" /\ arg = <<>>
    /\ reported = <<>> /\ notFound = FALSE /\ exc = "" /\ reads = 0 /\ writes = 0

CodecSave ==
    /\ pc = "codec_save"
    /\ file' = [exists |-> TRUE, text |-> save_contacts(contacts).text]
    /\ pc' = "codec_load"
    /\ UNCHANGED <<startFile, contacts, full_name, phone, target, op, arg,
                   reported, notFound, exc, reads, writes, inp, out>>

CodecLoad ==
    /\ pc = "codec_load"
    /\ out' = load_contacts(file).contacts
    /\ pc' = "codec_done"
    /\ UNCHANGED <<file, startFile, contacts, full_name, phone, target, op, arg,
                   reported, notFound, exc, reads, writes, inp>>

NextCodec == CodecSave \/ CodecLoad

SpecCodec == InitCodec /\ [][NextCodec]_vars

-----------------------------------------------------------------------------
(* Properties *)

HasStr(c, k) == k \in Keys(c) /\ IsStr(c[k])

\* the contacts whose stored full name is the string n
NamedAt(cs, n) == {i \in 1..Len(cs) : HasStr(cs[i], FullNameKey) /\ cs[i][FullNameKey].str = n}

StoredValid(c) ==
    /\ HasStr(c, PhoneKey) /\ is_valid_phone(c[PhoneKey].str)
    /\ HasStr(c, EmailKey)
    /\ \E i \in 1..Len(c[EmailKey].str) : c[EmailKey].str[i] = "@"
    /\ \E i \in 1..Len(c[EmailKey].str) : c[EmailKey].str[i] = "."

\* C1: in every state of a session, whatever contacts.csv held at startup,
\* every contact in the store has a phone that satisfies is_valid_phone and
\* an email that holds both '@' and '.'.
C1_StoredContactsValid == \A i \in 1..Len(contacts) : StoredValid(contacts[i])

\* C2: load_contacts of the file save_contacts wrote for a sequence of valid
\* contacts returns that sequence: same length, order and field values.
C2_RoundTrip == pc = "codec_done" => out = contacts

\* every stored contact has a full name
AllNamed(cs) == \A i \in 1..Len(cs) : HasStr(cs[i], FullNameKey)

\* every stored contact has a full name, a phone entry and an email entry
AllThreeFields(cs) ==
    \A i \in 1..Len(cs) :
        HasStr(cs[i], FullNameKey) /\ PhoneKey \in Keys(cs[i]) /\ EmailKey \in Keys(cs[i])

\* C3: on a store whose contacts all have a full name, remove_contact returns,
\* and a remove_contact call that returns has removed exactly the lowest-index
\* contact whose stored full name equals the normalized input: later contacts
\* of that name stay (those equal to it in all three fields too), and the
\* others keep order and values.  When no stored name equals the normalized
\* input the store is unchanged and not-found is reported.  (A call ended by
\* an exception leaves the store unchanged as well.)
C3_RemoveFirstMatch ==
    [][pc = "remove_name" =>
        LET M == NamedAt(contacts, NormalizeName(arg'))
        IN  /\ AllNamed(contacts) => pc' = "menu"
            /\ IF pc' # "menu" \/ M = {}
               THEN contacts' = contacts /\ (pc' = "menu" => notFound')
               ELSE LET k == SetMin(M)
                    IN  /\ Len(contacts') = Len(contacts) - 1
                        /\ \A i \in 1..(k - 1) : contacts'[i] = contacts[i]
                        /\ \A i \in k..Len(contacts') : contacts'[i] = contacts[i + 1]
                        /\ ~notFound'
    ]_vars

\* a removal happened and a contact of the removed name is still stored
C3_Witness ==
    /\ op = "remove" /\ pc = "menu" /\ ~notFound
    /\ NamedAt(contacts, NormalizeName(arg)) # {}

\* C4: update_contact changes nothing but the phone field of the lowest-index
\* contact whose stored full name equals the normalized input, and the phone
\* it stores satisfies is_valid_phone; the store's length and order, that
\* contact's other fields and every other contact stay.  When no stored name
\* equals the normalized input the store is unchanged and no phone is asked for.
C4_UpdateOnlyFirstPhone ==
    [][/\ pc = "update_name" =>
            LET M == NamedAt(contacts, NormalizeName(arg'))
            IN  /\ contacts' = contacts
                /\ M = {} => pc' # "update_phone"
                /\ pc' = "update_phone" => target' = SetMin(M)
                /\ (M # {} /\ pc' # "aborted") => pc' = "update_phone"
                /\ AllNamed(contacts) => pc' # "aborted"
       /\ pc = "update_phone" =>
            /\ Len(contacts') = Len(contacts)
            /\ \A i \in 1..Len(contacts) : i # target => contacts'[i] = contacts[i]
            /\ Keys(contacts'[target]) = Keys(contacts[target]) \cup {PhoneKey}
            /\ \A k \in Keys(contacts[target]) \ {PhoneKey} :
                   contacts'[target][k] = contacts[target][k]
            /\ contacts' # contacts =>
                   HasStr(contacts'[target], PhoneKey)
                   /\ is_valid_phone(contacts'[target][PhoneKey].str)
            /\ pc' = "menu" =>
                   /\ contacts'[target][PhoneKey] = StrVal(Strip(arg'))
                   /\ is_valid_phone(Strip(arg'))
            /\ pc' # "menu" => contacts' = contacts /\ target' = target
    ]_vars

\* an update was made while a later contact of the same name kept another phone
C4_Witness ==
    /\ op = "update" /\ pc = "menu" /\ ~notFound
    /\ \E i, j \in 1..Len(contacts) :
        /\ i < j
        /\ HasStr(contacts[i], FullNameKey)
        /\ contacts[i][FullNameKey] = contacts[j][FullNameKey]
        /\ contacts[i][PhoneKey] = StrVal(Strip(arg))
        /\ contacts[j][PhoneKey] # contacts[i][PhoneKey]

\* (XXX)XXX-XXXX and nothing else
ExactPhoneShape(s) ==
    /\ Len(s) = 13
    /\ s[1] = "(" /\ s[5] = ")" /\ s[9] = "-"
    /\ \A i \in {2, 3, 4, 6, 7, 8, 10, 11, 12, 13} : s[i] \in Digits

\* C5: is_valid_phone(s) is true exactly when the whole of s is '(' three
\* digits ')' three digits '-' four digits, with nothing before or after it,
\* a trailing newline included.
C5_PhoneExactShape == pc = "phone_done" => (out <=> ExactPhoneShape(inp))

IsLetter(c) == IsUpper(c) \/ IsLower(c)

\* s is t with whitespace, and only whitespace, taken off both ends
TrimOf(s, t) ==
    /\ t = <<>> \/ (t[1] \notin Whitespace /\ t[Len(t)] \notin Whitespace)
    /\ \E a \in 0..Len(s) :
        /\ a + Len(t) <= Len(s)
        /\ \A i \in 1..Len(t) : s[a + i] = t[i]
        /\ \A i \in (1..a) \cup ((a + Len(t) + 1)..Len(s)) : s[i] \in Whitespace

\* t with every letter that starts the string or follows a non-letter in upper
\* case, every letter that follows a letter in lower case
LetterRunsCapitalized(t, r) ==
    /\ Len(r) = Len(t)
    /\ \A i \in 1..Len(t) :
        r[i] = IF i = 1 \/ ~IsLetter(t[i - 1]) THEN ToUpper(t[i]) ELSE ToLower(t[i])

\* t with the first character of every whitespace-separated token in upper
\* case and the rest of the token in lower case
TokensCapitalized(t, r) ==
    /\ Len(r) = Len(t)
    /\ \A i \in 1..Len(t) :
        r[i] = IF i = 1 \/ t[i - 1] \in Whitespace THEN ToUpper(t[i]) ELSE ToLower(t[i])

\* C6 (as amended): name normalization trims leading and trailing whitespace
\* and then upper-cases every letter that starts the name or follows a
\* non-letter (whitespace, apostrophe, hyphen, digit) and lower-cases every
\* letter that follows a letter, keeping the internal spacing; it is
\* idempotent and gives the same result for all case variants of a name.
C6_NormalizeLetterRuns ==
    pc = "name_done" =>
        /\ \E a \in 0..Len(inp), b \in 0..Len(inp) :
            /\ a <= b
            /\ TrimOf(inp, SubSeq(inp, a + 1, b))
            /\ LetterRunsCapitalized(SubSeq(inp, a + 1, b), out)
        /\ NormalizeName(out) = out
        /\ NormalizeName(Upper(inp)) = out
        /\ NormalizeName(Lower(inp)) = out

\* C6: name normalization trims, then upper-cases the first letter and
\* lower-cases the rest of each whitespace-separated token, so that a letter
\* after an apostrophe, hyphen or digit inside a token is lower-cased.
C6_NormalizeWhitespaceTokens ==
    pc = "name_done" =>
        \E a \in 0..Len(inp), b \in 0..Len(inp) :
            /\ a <= b
            /\ TrimOf(inp, SubSeq(inp, a + 1, b))
            /\ TokensCapitalized(SubSeq(inp, a + 1, b), out)

\* a padded name was normalized whose token holds a letter after an apostrophe
C6_Witness ==
    /\ pc = "name_done"
    /\ Len(out) < Len(inp)
    /\ \E i \in 2..Len(out) : out[i - 1] = "'" /\ IsLetter(out[i])

\* the contacts search_contact is to report for the line typed: those whose
\* full name holds the trimmed term, letter case aside, in store order
Matching(cs, line) ==
    SelectSeq(cs, LAMBDA c :
        HasStr(c, FullNameKey) /\ Contains(Lower(c[FullNameKey].str), Lower(Strip(line))))

\* C7: search_contact leaves the store unchanged; on a store whose contacts
\* all have their three fields it returns; and a call that returns has
\* reported exactly the contacts whose full name holds the (trimmed) search
\* term as a substring, letter case aside: all of them, each once, in store
\* order; it reports not-found exactly when there is none.
C7_SearchReportsAllMatches ==
    [][pc = "search_term" =>
        /\ contacts' = contacts
        /\ AllThreeFields(contacts) => pc' = "menu"
        /\ pc' = "menu" =>
            /\ reported' = Matching(contacts, arg')
            /\ notFound' <=> Matching(contacts, arg') = <<>>
    ]_vars

\* a search typed in upper case reported two contacts
C7_Witness ==
    /\ op = "search" /\ pc = "menu"
    /\ arg = <<"A", "B">>
    /\ Len(reported) = 2

\* C8: when contacts.csv is absent at startup, load_contacts returns the empty
\* list and raises nothing; the session goes on to the menu with an empty store.
C8_AbsentFileEmptyStore ==
    (op = "load" /\ ~startFile.exists) => (contacts = <<>> /\ pc = "menu" /\ exc = "")

\* the session stands at the menu right after loading from an absent file
C8_Witness == op = "load" /\ ~startFile.exists /\ pc = "menu" /\ reads = 1

\* header and one row per contact, in store order
Encoding(cs) ==
    LET row(c) == WriteRow([i \in 1..3 |->
                     IF HasStr(c, FieldNames[i]) THEN c[FieldNames[i]].str ELSE <<>>])
        F[n \in 0..Len(cs)] == IF n = 0 THEN WriteRow(FieldNames) ELSE F[n - 1] \o row(cs[n])
    IN  F[Len(cs)]

\* C9: whatever contacts.csv held at startup and whatever is typed, no
\* operation ends the process with an exception; the session ends only by the
\* exit choice, after save_contacts has completed.
C9_NothingFatal ==
    /\ pc # "aborted"
    /\ pc = "exited" => (op = "exit" /\ file = [exists |-> TRUE, text |-> Encoding(contacts)])

\* C10: the file is read once, before the first menu choice, and written once,
\* by the exit choice: no other input changes the file, invalid choices change
\* neither file nor store, and the exit choice replaces the file's content by
\* the encoding of the current store, after which the loop has ended.
C10_ReadOnceWriteOnce ==
    [][/\ pc = "start" => reads' = 1
       /\ pc # "start" => reads' = reads
       /\ (file' # file \/ writes' # writes) => (pc = "menu" /\ op' = "exit")
       /\ (pc = "menu" /\ op' \in {"invalid_choice", "invalid_input"}) =>
              (contacts' = contacts /\ file' = file)
       /\ (pc = "menu" /\ op' = "exit") =>
              /\ writes = 0
              /\ file' = [exists |-> TRUE, text |-> Encoding(contacts)]
              /\ pc' = "exited"
    ]_vars

====
